---- MODULE Spec2Model ----
(***************************************************************************)
(* A model of the dubbing pipeline of dubber: Pipeline.run and the stages  *)
(* it calls (transcription and speaker alignment, translation, synthesis   *)
(* and duration matching, timeline assembly and mix, remux, subtitles),    *)
(* with the error handling of cli.main.                                    *)
(*                                                                         *)
(* Times are integers in milliseconds.  Every external engine call (ffmpeg,*)
(* ffprobe, demucs, whisper, pyannote, the translation model, XTTS) is a   *)
(* nondeterministic choice between its results and raising an exception.   *)
(***************************************************************************)
EXTENDS Integers, Sequences, FiniteSets, TLC

VARIABLES
    pc,             \* the stage Pipeline.run is in, or "Done" / "Failed"
    sub,            \* the position inside the stage
    idx,            \* the 1-based position of the per-segment loop of the stage
    segments,       \* the run's list of Segment objects
    clips,          \* per segment: duration of the file at its tts output path (NoFile: none)
    diarization,    \* the tracks of the Annotation diarize returned, in iteration order (<<>> out of scope)
    snapshots,      \* segments_transcribed.json / segments_translated.json in the work dir
    silence,        \* the silence_<index>.wav files of the work dir: index -> duration
    concat,         \* the blocks written to concat_list.txt
    mixed,          \* whether mixed_audio.wav has been written
    output,         \* the output directory, the output video and the .srt file
    exitStatus,     \* whether the process has exited, and its exit status
    config,         \* the DubbingConfig fields the run reads
    original,       \* the duration of the extracted original audio
    started,        \* history: the stages that have begun, in order
    errors,         \* history: the exceptions raised, as <<site, loop position>>
    synth,          \* history: per segment, the outcome of its pass through the Synthesize loop
    adjust,         \* the latest adjust_duration call: its clip and target, its tempo runs, its temporary file
    engines,        \* per engine: whether its handle is memoized, and how many times it was loaded
    extract         \* the wav files of the work directory and the latest extract_audio call

vars == <<pc, sub, idx, segments, clips, diarization, snapshots, silence, concat,
          mixed, output, exitStatus, config, original, started, errors, synth, adjust,
          engines, extract>>

(***************************************************************************)
(* Bounds of the model.                                                    *)
(***************************************************************************)
\* the longest list of raw segments the speech-to-text engine returns
MaxSegs == 2
\* the time grid of a run: whole seconds 0..MaxSec, each shifted by 0..MaxJit jitters
MaxSec == 2
MaxJit == 1
\* one jitter, in milliseconds (below the assembler's tolerance)
Jitter == 8
\* the alignment harness: times 0..MaxAlignT and at most MaxTracks diarization tracks
MaxAlignT == 3
MaxTracks == 3
\* the longest diarization a run receives
MaxRunTracks == 1

(***************************************************************************)
(* Values.                                                                 *)
(***************************************************************************)
None == "None"
NoFile == 0
DefaultSpeaker == "SPEAKER_00"
SpeakerLabels == {"SPEAKER_00", "SPEAKER_01"}

\* a text file of records: absent, or written with its records
NoFileYet == [exists |-> FALSE, records |-> <<>>]
Written(records) == [exists |-> TRUE, records |-> records]

Running == [exited |-> FALSE, status |-> 0]
Exited(status) == [exited |-> TRUE, status |-> status]

Max(a, b) == IF a >= b THEN a ELSE b
Min(a, b) == IF a <= b THEN a ELSE b

\* the sequences over S of length at most n
SeqsUpTo(S, n) == UNION {[1..k -> S] : k \in 0..n}

Last(s) == s[Len(s)]

(***************************************************************************)
(* models.py: Segment and its validator.                                   *)
(***************************************************************************)
\* Segment(id=, start=, end=, source_text=, speaker_id=None): the other fields default to None
Segment(id, start, end, text) ==
    [id |-> id, start |-> start, end |-> end, source_text |-> text,
     translated_text |-> None, speaker_id |-> None, audio_path |-> None]

\* mutant: a validator that accepts every pair of timestamps
MutAcceptsAll(seg) == TRUE
\* check_timestamps: construction raises ValueError unless end > start
CheckTimestamps(seg) == seg.end > seg.start

(***************************************************************************)
(* transcription.py: transcribe.                                           *)
(***************************************************************************)
\* str.strip() on the texts the engine returns here
Strip(text) == CASE text = " hi" -> "hi"
                 [] text = " "   -> ""
                 [] OTHER        -> text

\* whether the loop of transcribe keeps raw segment r (lines 115-118)
KeepsRaw(r) == ~(r.end - r.start <= 0) /\ Strip(r.text) # ""

\* the loop of transcribe over enumerate(segments_gen), from raw position i (1-based)
RECURSIVE TranscribeFrom(_, _)
TranscribeFrom(raw, i) ==
    IF i > Len(raw) THEN <<>>
    ELSE (IF KeepsRaw(raw[i])
          THEN <<Segment(i - 1, raw[i].start, raw[i].end, Strip(raw[i].text))>>
          ELSE <<>>) \o TranscribeFrom(raw, i + 1)

(***************************************************************************)
(* transcription.py: align_speakers.                                       *)
(***************************************************************************)
\* overlap_start, overlap_end, duration (lines 165-167)
Overlap(seg, track) ==
    Max(0, Min(seg.end, track.end) - Max(seg.start, track.start))

\* diarization.crop(support): the tracks that intersect [start, end), each cut to
\* the intersection, in the annotation's order; an empty intersection is dropped
RECURSIVE CropFrom(_, _, _, _)
CropFrom(ann, start, end, i) ==
    IF i > Len(ann) THEN <<>>
    ELSE LET s == Max(start, ann[i].start)
             e == Min(end, ann[i].end)
         IN (IF s < e THEN <<[start |-> s, end |-> e, label |-> ann[i].label]>> ELSE <<>>)
            \o CropFrom(ann, start, end, i + 1)

\* mutant: a crop that returns every track, as a stub does
MutCropKeepsAll(ann, start, end) == ann
\* region = diarization.crop(...) (line 152)
Crop(ann, start, end) == CropFrom(ann, start, end, 1)

\* speaker_durations[label] = speaker_durations.get(label, 0) + duration: the dict is
\* a sequence of <<label, duration>> in insertion order
DictPut(dict, label, duration) ==
    IF \E k \in 1..Len(dict) : dict[k][1] = label
    THEN [k \in 1..Len(dict) |->
            IF dict[k][1] = label THEN <<label, dict[k][2] + duration>> ELSE dict[k]]
    ELSE Append(dict, <<label, duration>>)

\* the loop over region.itertracks (lines 162-168)
RECURSIVE SpeakerDurations(_, _, _, _)
SpeakerDurations(seg, region, i, dict) ==
    IF i > Len(region) THEN dict
    ELSE SpeakerDurations(seg, region, i + 1,
                          DictPut(dict, region[i].label, Overlap(seg, region[i])))

\* mutant: the last maximal key instead of the first
MutDictMaxLast(dict) ==
    LET k == CHOOSE k \in 1..Len(dict) :
                 /\ \A j \in 1..Len(dict) : dict[j][2] <= dict[k][2]
                 /\ \A j \in (k + 1)..Len(dict) : dict[j][2] < dict[k][2]
    IN dict[k][1]
\* max(speaker_durations, key=speaker_durations.get): the first key, in insertion
\* order, whose value is maximal
DictMax(dict) ==
    LET k == CHOOSE k \in 1..Len(dict) :
                 /\ \A j \in 1..Len(dict) : dict[j][2] <= dict[k][2]
                 /\ \A j \in 1..(k - 1) : dict[j][2] < dict[k][2]
    IN dict[k][1]

\* mutant: a segment that no track overlaps is left as transcribe made it
MutNoOverlapUnset(seg, ann) ==
    LET region == Crop(ann, seg.start, seg.end)
    IN IF region = <<>> THEN seg.speaker_id
       ELSE DictMax(SpeakerDurations(seg, region, 1, <<>>))
\* the body of the loop of align_speakers for one segment: its speaker_id
AlignSpeaker(seg, ann) ==
    LET region == Crop(ann, seg.start, seg.end)
        speaker_durations == SpeakerDurations(seg, region, 1, <<>>)
    IN IF region = <<>> THEN DefaultSpeaker
       ELSE IF speaker_durations # <<>> THEN DictMax(speaker_durations)
       ELSE DefaultSpeaker

(***************************************************************************)
(* audio/separation.py: extract_audio.  The wav is named after the stem of *)
(* the video alone, and is looked for in the work directory before ffmpeg  *)
(* is run.                                                                 *)
(***************************************************************************)
\* the videos extract_audio is called on: two of the same stem, one of another
Videos == {"a/video.mp4", "b/video.mkv", "a/clip.mp4"}
InputVideo == "a/video.mp4"

\* video_path.stem
Stem(video) == IF video = "a/clip.mp4" THEN "clip" ELSE "video"
Stems == {Stem(v) : v \in Videos}

\* a wav of the work directory: absent, or what ffmpeg wrote from a video, in full
\* or up to the point where it failed
NoWav == [state |-> "absent", of |-> "-"]
WavOf(video, state) == [state |-> state, of |-> video]

\* output_wav = work_dir / f"{video_path.stem}.wav" (line 78)
WavPath(video) == [kind |-> "path", dir |-> "work", name |-> Stem(video), suffix |-> "wav"]
NoPath == [kind |-> "none", dir |-> "-", name |-> "-", suffix |-> "-"]
Raised == [kind |-> "raised", dir |-> "-", name |-> "-", suffix |-> "-"]

\* an empty work directory, before any call
NoExtract ==
    [wavs |-> [st \in Stems |-> NoWav], before |-> [st \in Stems |-> NoWav],
     video |-> "-", runs |-> 0, returned |-> NoPath, calls |-> 0]

\* mutant: the wav is never looked for
MutNeverExtracted(wavs, video) == FALSE
\* output_wav.exists() (line 80)
AlreadyExtracted(wavs, video) == wavs[Stem(video)].state # "absent"

\* the call returns: at once for a wav that exists (lines 80-82), after one ffmpeg
\* run that wrote the wav otherwise (lines 84-101)
ExtractReturns(ex, video) ==
    IF AlreadyExtracted(ex.wavs, video)
    THEN [ex EXCEPT !.before = ex.wavs, !.video = video, !.runs = 0,
                    !.returned = WavPath(video), !.calls = @ + 1]
    ELSE [ex EXCEPT !.before = ex.wavs, !.video = video, !.runs = 1,
                    !.wavs[Stem(video)] = WavOf(video, "complete"),
                    !.returned = WavPath(video), !.calls = @ + 1]

\* the call raises: ffmpeg, which is given the wav's own path, failed (lines 96-99);
\* what it wrote before failing stays
ExtractRaises(ex, video) ==
    IF AlreadyExtracted(ex.wavs, video) THEN {}
    ELSE {[ex EXCEPT !.before = ex.wavs, !.video = video, !.runs = 1,
                     !.wavs[Stem(video)] = left,
                     !.returned = Raised, !.calls = @ + 1] :
             left \in {NoWav, WavOf(video, "partial")}}

\* the work directory of a run whose extraction returned
Extracted == ExtractReturns(NoExtract, InputVideo)

(***************************************************************************)
(* The engines of a run: the whisper model of TranscriptionManager, the    *)
(* translation model of Translator, the XTTS model of XTTSEngine.  Each is *)
(* loaded on first use and its handle kept in the object.                  *)
(***************************************************************************)
EngineNames == {"whisper", "translation", "tts"}

\* self._whisper_model, self._model, self._tts are None after construction
NotLoaded == [loaded |-> FALSE, loads |-> 0]
NoEngines == [e \in EngineNames |-> NotLoaded]

\* whisper_model, load_model: the engine is loaded when the handle is None
\* (transcription.py 35, translation.py 31, xtts_engine.py 59), and the handle kept
Load(engine) == IF engine.loaded THEN engine ELSE [loaded |-> TRUE, loads |-> engine.loads + 1]

\* the load is attempted and raises: the handle stays None, or it was assigned
\* before the move to the device raised
LoadRaises(engine) ==
    {[loaded |-> kept, loads |-> engine.loads + 1] : kept \in BOOLEAN}

\* a use of the engine that returns
Use(engs, name) == [engs EXCEPT ![name] = Load(engs[name])]

\* a use of the engine that raises: in the load, when there is one, or in the call
\* made with the handle
UseRaises(engs, name) ==
    {[engs EXCEPT ![name] = e] :
        e \in {Load(engs[name])} \cup
              (IF engs[name].loaded THEN {} ELSE LoadRaises(engs[name]))}

\* the engines of a run in which each was used, and loaded without error
EnginesLoaded == [e \in EngineNames |-> Load(NotLoaded)]

(***************************************************************************)
(* translation.py: translate_text.                                         *)
(***************************************************************************)
\* what the translation model may return for a non-empty text
TranslationOutputs == {"", "bonjour"}

\* lines 60-61: an empty or blank text is returned as "" without a model call
NeedsModel(text) == text # "" /\ Strip(text) # ""

(***************************************************************************)
(* tts/xtts_engine.py: adjust_duration.                                    *)
(***************************************************************************)
\* current_duration <= 0.1 (line 132), in milliseconds
MinStretchable == 100

\* mutant: the raw ratio, not clamped
MutSpeedUnclamped(current, target) == <<current, target>>
\* speed = max(0.5, min(2.0, ratio)) with ratio = current / target, as the
\* fraction <<numerator, denominator>> (lines 135-136)
Speed(current, target) ==
    IF current > 2 * target THEN <<2, 1>>
    ELSE IF 2 * current < target THEN <<1, 2>>
    ELSE <<current, target>>

\* mutant: no clip is close enough to be left alone
MutNeverClose(speed) == FALSE
\* 0.9 < speed < 1.1 (line 138)
CloseEnough(speed) == 9 * speed[2] < 10 * speed[1] /\ 10 * speed[1] < 11 * speed[2]

\* mutant: the early return on a measured duration of 0.1 s or less is gone
MutStretchesShort(current, target) == ~CloseEnough(Speed(current, target))
\* whether adjust_duration reaches the tempo engine for a clip measured at current
NeedsStretch(current, target) ==
    current > MinStretchable /\ ~CloseEnough(Speed(current, target))

\* the duration of the clip atempo=speed writes
Stretched(current, target) ==
    LET speed == Speed(current, target) IN (current * speed[2]) \div speed[1]

\* no adjust_duration call has been made
NoCall == [before |-> NoFile, target |-> 0, runs |-> <<>>, temp |-> NoFile]

\* adjust_duration(audio_path, target_duration) is entered, the clip lasting d
Call(d, target) == [before |-> d, target |-> target, runs |-> <<>>, temp |-> NoFile]

\* one run of the tempo engine: ffmpeg -i audio_path -filter:a atempo=speed temp_path
\* (lines 145-152)
TempoRun(input, speed) == [input |-> input, speed |-> speed]

\* what a failed tempo run may leave at temp_path: nothing, or a truncated file
PartialOutputs(full) == {NoFile, full \div 2}

\* the call returns: the tempo run, if any, was made and its output moved over the clip
AdjustReturns(d, target, probed) ==
    IF probed /\ NeedsStretch(d, target)
    THEN [Call(d, target) EXCEPT !.runs = <<TempoRun(d, Speed(d, target))>>]
    ELSE Call(d, target)

\* the call raises: the tempo run failed, or it succeeded and the move failed
AdjustRaises(d, target) ==
    {[Call(d, target) EXCEPT !.runs = <<TempoRun(d, Speed(d, target))>>, !.temp = left] :
        left \in PartialOutputs(Stretched(d, target)) \cup {Stretched(d, target)}}

\* the durations XTTS may give the clip of a window of w milliseconds: too short to
\* stretch, exact, three times as long
TtsDurations(w) == {80, w, 3 * w}

(***************************************************************************)
(* audio/mix.py: create_mixed_audio, the concat list.                      *)
(***************************************************************************)
\* gap > 0.01, remaining > 0.01 (lines 90, 105), in milliseconds
Tolerance == 10

\* get_silence(duration, index): the file is generated only when it does not exist
GetSilence(files, duration, index) ==
    IF index \in DOMAIN files THEN files ELSE (index :> duration) @@ files

\* mutant: the loop skips nothing
MutNeverMissing(seg, clip) == FALSE
\* not seg.audio_path or not seg.audio_path.exists() (line 84)
MissingAudio(seg, clip) == seg.audio_path = None \/ clip = NoFile

SilenceBlock(files, index) == [kind |-> "silence", name |-> index, dur |-> files[index]]
ClipBlock(seg, clip) == [kind |-> "clip", name |-> <<"seg", seg.id>>, dur |-> clip]

\* the loop over enumerate(segments) from position i (1-based), with current_time
\* and the silence files so far (lines 83-101)
RECURSIVE MixLoop(_, _, _, _, _)
MixLoop(segs, cl, i, current_time, files) ==
    IF i > Len(segs) THEN [blocks |-> <<>>, current_time |-> current_time, files |-> files]
    ELSE IF MissingAudio(segs[i], cl[i]) THEN MixLoop(segs, cl, i + 1, current_time, files)
    ELSE LET gap == segs[i].start - current_time
             index == <<"gap", i - 1>>
             files2 == IF gap > Tolerance THEN GetSilence(files, gap, index) ELSE files
             head == (IF gap > Tolerance THEN <<SilenceBlock(files2, index)>> ELSE <<>>)
                     \o <<ClipBlock(segs[i], cl[i])>>
             rest == MixLoop(segs, cl, i + 1, segs[i].end, files2)
         IN [blocks |-> head \o rest.blocks, current_time |-> rest.current_time,
             files |-> rest.files]

\* mutant: a failed probe gives a total of 0
MutFallbackZero(segs) == 0
\* total_duration when the probe fails (line 40)
FallbackDuration(segs) == IF segs # <<>> THEN Last(segs).end ELSE 0

\* everything written to the concat list, with the final gap (lines 82-107)
ConcatList(segs, cl, total_duration, files) ==
    LET loop == MixLoop(segs, cl, 1, 0, files)
        remaining == total_duration - loop.current_time
        files2 == IF remaining > Tolerance
                  THEN GetSilence(loop.files, remaining, <<"end", 0>>) ELSE loop.files
    IN [blocks |-> loop.blocks \o
                   (IF remaining > Tolerance THEN <<SilenceBlock(files2, <<"end", 0>>)>> ELSE <<>>),
        files |-> files2]

RECURSIVE TotalDuration(_)
TotalDuration(blocks) ==
    IF blocks = <<>> THEN 0 ELSE blocks[1].dur + TotalDuration(Tail(blocks))

\* the offset in the concatenated track of the first block named name (-1: not there)
RECURSIVE OffsetOf(_, _)
OffsetOf(blocks, name) ==
    IF blocks = <<>> THEN -1
    ELSE IF blocks[1].name = name THEN 0
    ELSE LET r == OffsetOf(Tail(blocks), name)
         IN IF r = -1 THEN -1 ELSE blocks[1].dur + r

(***************************************************************************)
(* The inputs of a run: what the engines may return.                       *)
(***************************************************************************)
Times == {k * 1000 + j * Jitter : k \in 0..MaxSec, j \in 0..MaxJit}

\* the duration of the original audio of a run: the end of the grid
Originals == {MaxSec * 1000 + MaxJit * Jitter}

\* a raw segment of the speech-to-text engine: it may be empty in time or in text
RawSegs == {r \in [start : Times, end : Times, text : {" ", " hi"}] : r.start <= r.end}

\* the engine returns its segments in time order, without overlap, inside the audio
WhisperOutputs(total) ==
    {raw \in SeqsUpTo(RawSegs, MaxSegs) :
        /\ \A i \in 1..Len(raw) : raw[i].end <= total
        /\ \A i \in 1..(Len(raw) - 1) : raw[i].end <= raw[i + 1].start}

\* an Annotation iterates its tracks sorted by (start, end); a track is never empty
Tracks(T) == {t \in [start : T, end : T, label : SpeakerLabels] : t.start < t.end}
Annotations(T, n) ==
    {ann \in SeqsUpTo(Tracks(T), n) :
        \A i \in 1..(Len(ann) - 1) :
            \/ ann[i].start < ann[i + 1].start
            \/ ann[i].start = ann[i + 1].start /\ ann[i].end <= ann[i + 1].end}

\* the diarization of a run: tracks on whole seconds
RunAnnotations == Annotations({k * 1000 : k \in 0..MaxSec}, MaxRunTracks)

(***************************************************************************)
(* cli.py and pipeline.py: the run.                                        *)
(***************************************************************************)
StageOrder == <<"Extract", "Separate", "TranscribeDiarize", "Translate",
                "Synthesize", "Mix", "Remux", "Subtitles">>

\* sys.exit(1) in the except clause of main
ExitFailure == 1

Begin(stage) == started' = Append(started, stage)
Raise(site) == errors' = errors \cup {<<site, idx>>}

\* mutant: main logs the exception and returns, so the process exits with status 0
MutAbortExitsZero(sites) ==
    /\ errors' = errors \cup {<<site, idx>> : site \in sites}
    /\ pc' = "Failed"
    /\ exitStatus' = Exited(0)

\* exceptions that nothing catches below main: cli.py logs the one that
\* propagates and exits (sites: it, and those caught on the way to it)
AbortWith(sites) ==
    /\ errors' = errors \cup {<<site, idx>> : site \in sites}
    /\ pc' = "Failed"
    /\ exitStatus' = Exited(ExitFailure)

Abort(site) == AbortWith({site})

Init ==
    /\ pc = "Extract"
    /\ sub = "-"
    /\ idx = 0
    /\ segments = <<>>
    /\ clips = <<>>
    /\ diarization = <<>>
    /\ snapshots = [transcribed |-> NoFileYet, translated |-> NoFileYet]
    /\ silence = <<>>
    /\ concat = <<>>
    /\ mixed = FALSE
    /\ output = [dir |-> FALSE, video |-> "absent", srt |-> NoFileYet]
    /\ exitStatus = Running
    /\ config \in [generate_subtitles : BOOLEAN]
    /\ original \in Originals
    /\ started = <<>>
    /\ errors = {}
    /\ synth = <<>>
    /\ adjust = NoCall
    /\ engines = NoEngines
    /\ extract = NoExtract

\* 1. extract_audio returns the wav
ExtractAudio ==
    /\ pc = "Extract"
    /\ Begin("Extract")
    /\ extract' = ExtractReturns(extract, InputVideo)
    /\ pc' = "Separate"
    /\ UNCHANGED <<sub, idx, segments, clips, diarization, snapshots, silence, concat,
                   mixed, output, exitStatus, config, original, errors, synth, adjust,
                   engines>>

\* ffmpeg fails: RuntimeError("Audio extraction failed")
ExtractRaise ==
    /\ pc = "Extract"
    /\ Begin("Extract")
    /\ extract' \in ExtractRaises(extract, InputVideo)
    /\ Abort("extract")
    /\ UNCHANGED <<sub, idx, segments, clips, diarization, snapshots, silence, concat,
                   mixed, output, config, original, synth, adjust, engines>>

\* 2. separate_audio returns the stems
SeparateAudio ==
    /\ pc = "Separate"
    /\ Begin("Separate")
    /\ pc' = "TranscribeDiarize"
    /\ sub' = "transcribe"
    /\ UNCHANGED <<idx, segments, clips, diarization, snapshots, silence, concat,
                   mixed, output, exitStatus, config, original, errors, synth, adjust,
                   engines, extract>>

\* demucs fails or its output files are missing: RuntimeError
SeparateRaise ==
    /\ pc = "Separate"
    /\ Begin("Separate")
    /\ Abort("separate")
    /\ UNCHANGED <<sub, idx, segments, clips, diarization, snapshots, silence, concat,
                   mixed, output, config, original, synth, adjust, engines, extract>>

\* mutant: run goes on to diarize whatever transcribe returned
MutTranscribeThenDiarize ==
    /\ pc = "TranscribeDiarize" /\ sub = "transcribe"
    /\ Begin("TranscribeDiarize")
    /\ engines' = Use(engines, "whisper")
    /\ \E raw \in WhisperOutputs(original) :
         LET segs == TranscribeFrom(raw, 1) IN
         /\ \A i \in 1..Len(segs) : CheckTimestamps(segs[i])
         /\ segments' = segs
         /\ clips' = [i \in 1..Len(segs) |-> NoFile]
         /\ synth' = [i \in 1..Len(segs) |-> "pending"]
         /\ sub' = "diarize"
    /\ UNCHANGED <<pc, idx, diarization, snapshots, silence, concat, mixed, output,
                   exitStatus, config, original, errors, adjust, extract>>
\* 3. TranscriptionManager.run: transcribe, then return [] or go on to diarize
Transcribe ==
    /\ pc = "TranscribeDiarize" /\ sub = "transcribe"
    /\ Begin("TranscribeDiarize")
    /\ engines' = Use(engines, "whisper")
    /\ \E raw \in WhisperOutputs(original) :
         LET segs == TranscribeFrom(raw, 1) IN
         /\ \A i \in 1..Len(segs) : CheckTimestamps(segs[i])
         /\ segments' = segs
         /\ clips' = [i \in 1..Len(segs) |-> NoFile]
         /\ synth' = [i \in 1..Len(segs) |-> "pending"]
         /\ sub' = IF segs = <<>> THEN "save" ELSE "diarize"
    /\ UNCHANGED <<pc, idx, diarization, snapshots, silence, concat, mixed, output,
                   exitStatus, config, original, errors, adjust, extract>>

\* the whisper model fails to load or to transcribe: nothing in run catches it
TranscribeRaise ==
    /\ pc = "TranscribeDiarize" /\ sub = "transcribe"
    /\ Begin("TranscribeDiarize")
    /\ engines' \in UseRaises(engines, "whisper")
    /\ Abort("transcribe")
    /\ UNCHANGED <<sub, idx, segments, clips, diarization, snapshots, silence, concat,
                   mixed, output, config, original, synth, adjust, extract>>

\* self.diarize returns the annotation
Diarize ==
    /\ pc = "TranscribeDiarize" /\ sub = "diarize"
    /\ \E ann \in RunAnnotations : diarization' = ann
    /\ sub' = "align"
    /\ idx' = 1
    /\ UNCHANGED <<pc, segments, clips, snapshots, silence, concat, mixed, output,
                   exitStatus, config, original, started, errors, synth, adjust, engines,
                   extract>>

\* mutant: only the segments that have no speaker yet get the default
MutDefaultOnlyUnset(segs) ==
    [i \in 1..Len(segs) |->
        IF segs[i].speaker_id = None
        THEN [segs[i] EXCEPT !.speaker_id = DefaultSpeaker] ELSE segs[i]]
\* the except clause of run (lines 197-200): every segment gets the default speaker
DefaultSpeakers(segs) ==
    [i \in 1..Len(segs) |-> [segs[i] EXCEPT !.speaker_id = DefaultSpeaker]]

\* what run does with an exception of diarize or align_speakers: it is caught
DiarizationFailed(site) ==
    /\ Raise(site)
    /\ segments' = DefaultSpeakers(segments)
    /\ diarization' = <<>>
    /\ sub' = "save"
    /\ idx' = 0
    /\ UNCHANGED <<pc, clips, snapshots, silence, concat, mixed, output, exitStatus,
                   config, original, started, synth, adjust, engines, extract>>

\* the diarization pipeline fails to load (no token) or fails on the audio
DiarizeRaise ==
    /\ pc = "TranscribeDiarize" /\ sub = "diarize"
    /\ \E site \in {"diarize_load", "diarize_call"} : DiarizationFailed(site)

\* one iteration of the loop of align_speakers; the last one returns to run
AlignStep ==
    /\ pc = "TranscribeDiarize" /\ sub = "align"
    /\ idx \in 1..Len(segments)
    /\ segments' = [segments EXCEPT
                       ![idx].speaker_id = AlignSpeaker(segments[idx], diarization)]
    /\ IF idx = Len(segments)
       THEN sub' = "save" /\ idx' = 0 /\ diarization' = <<>>
       ELSE sub' = "align" /\ idx' = idx + 1 /\ diarization' = diarization
    /\ UNCHANGED <<pc, clips, snapshots, silence, concat, mixed, output, exitStatus,
                   config, original, started, errors, synth, adjust, engines, extract>>

\* an iteration of align_speakers raises (crop, labels or itertracks)
AlignRaise ==
    /\ pc = "TranscribeDiarize" /\ sub = "align"
    /\ idx \in 1..Len(segments)
    /\ DiarizationFailed("align")

\* mutant: the dump stops one segment short
MutDumpDropsLast(segs) == [i \in 1..(Len(segs) - 1) |-> segs[i]]
\* _save_segments: one record per segment, from model_dump_json
Dump(segs) ==
    [i \in 1..Len(segs) |->
        [id |-> segs[i].id, start |-> segs[i].start, end |-> segs[i].end,
         source_text |-> segs[i].source_text, translated_text |-> segs[i].translated_text,
         speaker_id |-> segs[i].speaker_id, audio_path |-> segs[i].audio_path]]

\* pipeline.py line 69: the transcript snapshot
SaveTranscribed ==
    /\ pc = "TranscribeDiarize" /\ sub = "save"
    /\ snapshots' = [snapshots EXCEPT !.transcribed = Written(Dump(segments))]
    /\ pc' = "Translate"
    /\ sub' = "init"
    /\ UNCHANGED <<idx, segments, clips, diarization, silence, concat, mixed, output,
                   exitStatus, config, original, started, errors, synth, adjust, engines,
                   extract>>

\* the snapshot cannot be opened for writing
SaveTranscribedRaise ==
    /\ pc = "TranscribeDiarize" /\ sub = "save"
    /\ Abort("save_transcribed")
    /\ UNCHANGED <<sub, idx, segments, clips, diarization, snapshots, silence, concat,
                   mixed, output, config, original, started, synth, adjust, engines,
                   extract>>

\* 4. Translator(...) is constructed (pipeline.py lines 72-76)
TranslateInit ==
    /\ pc = "Translate" /\ sub = "init"
    /\ Begin("Translate")
    /\ IF segments = <<>> THEN sub' = "save" /\ idx' = 0
                          ELSE sub' = "loop" /\ idx' = 1
    /\ UNCHANGED <<pc, segments, clips, diarization, snapshots, silence, concat, mixed,
                   output, exitStatus, config, original, errors, synth, adjust, engines,
                   extract>>

\* where a per-segment loop of Pipeline.run stands after the iteration at idx
LoopNext(after) ==
    IF idx = Len(segments) THEN sub' = after /\ idx' = 0
                           ELSE sub' = sub /\ idx' = idx + 1

\* mutant: the translation is written over the source text as well
MutTranslateOverSource ==
    /\ pc = "Translate" /\ sub = "loop"
    /\ idx \in 1..Len(segments)
    /\ \E out \in TranslationOutputs :
         segments' = [segments EXCEPT ![idx].translated_text = out,
                                      ![idx].source_text = out]
    /\ LoopNext("save")
    /\ engines' = Use(engines, "translation")
    /\ UNCHANGED <<pc, clips, diarization, snapshots, silence, concat, mixed, output,
                   exitStatus, config, original, started, errors, synth, adjust, extract>>
\* one iteration of the translation loop (lines 79-84)
TranslateStep ==
    /\ pc = "Translate" /\ sub = "loop"
    /\ idx \in 1..Len(segments)
    /\ \E out \in TranslationOutputs :
         segments' = [segments EXCEPT ![idx].translated_text =
                         IF NeedsModel(segments[idx].source_text) THEN out ELSE ""]
    /\ LoopNext("save")
    /\ engines' = IF NeedsModel(segments[idx].source_text)
                  THEN Use(engines, "translation") ELSE engines
    /\ UNCHANGED <<pc, clips, diarization, snapshots, silence, concat, mixed, output,
                   exitStatus, config, original, started, errors, synth, adjust, extract>>

\* the translation model fails to load or to generate: nothing catches it
TranslateRaise ==
    /\ pc = "Translate" /\ sub = "loop"
    /\ idx \in 1..Len(segments)
    /\ NeedsModel(segments[idx].source_text)
    /\ engines' \in UseRaises(engines, "translation")
    /\ Abort("translate")
    /\ UNCHANGED <<sub, idx, segments, clips, diarization, snapshots, silence, concat,
                   mixed, output, config, original, started, synth, adjust, extract>>

\* line 88: the translated snapshot
SaveTranslated ==
    /\ pc = "Translate" /\ sub = "save"
    /\ snapshots' = [snapshots EXCEPT !.translated = Written(Dump(segments))]
    /\ pc' = "Synthesize"
    /\ sub' = "init"
    /\ UNCHANGED <<idx, segments, clips, diarization, silence, concat, mixed, output,
                   exitStatus, config, original, started, errors, synth, adjust, engines,
                   extract>>

SaveTranslatedRaise ==
    /\ pc = "Translate" /\ sub = "save"
    /\ Abort("save_translated")
    /\ UNCHANGED <<sub, idx, segments, clips, diarization, snapshots, silence, concat,
                   mixed, output, config, original, started, synth, adjust, engines,
                   extract>>

\* 5. XTTSEngine(...) is constructed, the profiles registered, tts/ created (lines 91-134)
SynthesizeInit ==
    /\ pc = "Synthesize" /\ sub = "init"
    /\ Begin("Synthesize")
    /\ IF segments = <<>> THEN pc' = "Mix" /\ sub' = "-" /\ idx' = 0
                          ELSE pc' = pc /\ sub' = "loop" /\ idx' = 1
    /\ UNCHANGED <<segments, clips, diarization, snapshots, silence, concat, mixed,
                   output, exitStatus, config, original, errors, synth, adjust, engines,
                   extract>>

\* the default reference audio or the tts directory cannot be written
SynthesizeInitRaise ==
    /\ pc = "Synthesize" /\ sub = "init"
    /\ Begin("Synthesize")
    /\ Abort("tts_setup")
    /\ UNCHANGED <<sub, idx, segments, clips, diarization, snapshots, silence, concat,
                   mixed, output, config, original, synth, adjust, engines, extract>>

\* the synthesis loop after the iteration at idx (line 136)
SynthNext ==
    IF idx = Len(segments) THEN pc' = "Mix" /\ sub' = "-" /\ idx' = 0
                           ELSE pc' = pc /\ sub' = sub /\ idx' = idx + 1

\* not seg.translated_text (line 137): None or ""
\* mutant: only an absent text is skipped, an empty one is synthesized
MutOnlyAbsentSkipped(seg) == seg.translated_text = None
NoTranslation(seg) == seg.translated_text = None \/ seg.translated_text = ""

\* lines 137-138: continue
SynthSkip ==
    /\ pc = "Synthesize" /\ sub = "loop"
    /\ idx \in 1..Len(segments)
    /\ NoTranslation(segments[idx])
    /\ synth' = [synth EXCEPT ![idx] = "skipped"]
    /\ SynthNext
    /\ UNCHANGED <<segments, clips, diarization, snapshots, silence, concat, mixed,
                   output, exitStatus, config, original, started, errors, adjust, engines,
                   extract>>

\* adjust_duration on a clip of duration d: what the file holds when it returns.
\* A failed probe reads as 0.0 and returns at once.
AdjustDuration(d, target, probed) ==
    IF probed /\ NeedsStretch(d, target) THEN Stretched(d, target) ELSE d

\* lines 141-149: synthesize and adjust_duration both return
SynthOk ==
    /\ pc = "Synthesize" /\ sub = "loop"
    /\ idx \in 1..Len(segments)
    /\ ~NoTranslation(segments[idx])
    /\ \E d \in TtsDurations(segments[idx].end - segments[idx].start), probed \in BOOLEAN :
         /\ clips' = [clips EXCEPT ![idx] =
                        AdjustDuration(d, segments[idx].end - segments[idx].start, probed)]
         /\ adjust' = AdjustReturns(d, segments[idx].end - segments[idx].start, probed)
    /\ segments' = [segments EXCEPT ![idx].audio_path = "wav"]
    /\ synth' = [synth EXCEPT ![idx] = "ok"]
    /\ engines' = Use(engines, "tts")
    /\ SynthNext
    /\ UNCHANGED <<diarization, snapshots, silence, concat, mixed, output, exitStatus,
                   config, original, started, errors, extract>>

\* mutant: the try is around the loop, a failure ends the stage
MutFailureEndsLoop(site) ==
    /\ Raise(site)
    /\ synth' = [synth EXCEPT ![idx] = "failed"]
    /\ pc' = "Mix" /\ sub' = "-" /\ idx' = 0
    /\ UNCHANGED <<segments, diarization, snapshots, silence, concat, mixed, output,
                   exitStatus, config, original, started, extract>>
\* mutant: the except clause removes the segment from the list
MutSegmentDropped(site) ==
    /\ Raise(site)
    /\ segments' = [i \in 1..(Len(segments) - 1) |->
                       IF i < idx THEN segments[i] ELSE segments[i + 1]]
    /\ synth' = [synth EXCEPT ![idx] = "failed"]
    /\ SynthNext
    /\ UNCHANGED <<diarization, snapshots, silence, concat, mixed, output,
                   exitStatus, config, original, started, extract>>
\* mutant: no try around the segment, the exception leaves run
MutSegmentAborts(site) ==
    /\ Abort(site)
    /\ UNCHANGED <<sub, idx, synth>>
    /\ UNCHANGED <<segments, diarization, snapshots, silence, concat, mixed, output,
                   config, original, started, extract>>
\* the except clause of the synthesis loop (lines 150-152): log and go on
SegmentFailed(site) ==
    /\ Raise(site)
    /\ synth' = [synth EXCEPT ![idx] = "failed"]
    /\ SynthNext
    /\ UNCHANGED <<segments, diarization, snapshots, silence, concat, mixed, output,
                   exitStatus, config, original, started, extract>>

\* synthesize raises (model load, tts_to_file, or no file written)
SynthRaise ==
    /\ pc = "Synthesize" /\ sub = "loop"
    /\ idx \in 1..Len(segments)
    /\ ~NoTranslation(segments[idx])
    /\ clips' = clips
    /\ adjust' = adjust
    /\ engines' \in UseRaises(engines, "tts")
    /\ SegmentFailed("synthesize")

\* mutant: the handle is set before the duration match, and stays when it fails
MutAdjustRaiseKeepsHandle ==
    /\ pc = "Synthesize" /\ sub = "loop"
    /\ idx \in 1..Len(segments)
    /\ ~NoTranslation(segments[idx])
    /\ \E d \in TtsDurations(segments[idx].end - segments[idx].start) :
         /\ NeedsStretch(d, segments[idx].end - segments[idx].start)
         /\ clips' = [clips EXCEPT ![idx] = d]
         /\ adjust' \in AdjustRaises(d, segments[idx].end - segments[idx].start)
    /\ segments' = [segments EXCEPT ![idx].audio_path = "wav"]
    /\ Raise("adjust_duration")
    /\ engines' = Use(engines, "tts")
    /\ synth' = [synth EXCEPT ![idx] = "failed"]
    /\ SynthNext
    /\ UNCHANGED <<diarization, snapshots, silence, concat, mixed, output,
                   exitStatus, config, original, started, extract>>
\* adjust_duration raises: the tempo run or the move of the temporary file fails,
\* and the clip synthesize wrote stays as it was
AdjustRaise ==
    /\ pc = "Synthesize" /\ sub = "loop"
    /\ idx \in 1..Len(segments)
    /\ ~NoTranslation(segments[idx])
    /\ \E d \in TtsDurations(segments[idx].end - segments[idx].start) :
         /\ NeedsStretch(d, segments[idx].end - segments[idx].start)
         /\ clips' = [clips EXCEPT ![idx] = d]
         /\ adjust' \in AdjustRaises(d, segments[idx].end - segments[idx].start)
    /\ engines' = Use(engines, "tts")
    /\ SegmentFailed("adjust_duration")

\* 6. create_mixed_audio: the concat list for a probe that succeeded or failed
MixResult(probed) ==
    ConcatList(segments, clips,
               IF probed THEN original ELSE FallbackDuration(segments), silence)

ProbeErrors(probed) == IF probed THEN {} ELSE {"probe"}

\* mutant: the mixed audio is written into the output directory
MutMixIntoOutput ==
    /\ pc = "Mix"
    /\ Begin("Mix")
    /\ \E probed \in BOOLEAN :
         /\ concat' = MixResult(probed).blocks
         /\ silence' = MixResult(probed).files
         /\ errors' = errors \cup {<<site, idx>> : site \in ProbeErrors(probed)}
    /\ mixed' = TRUE
    /\ output' = [output EXCEPT !.dir = TRUE]
    /\ pc' = "Remux"
    /\ UNCHANGED <<sub, idx, segments, clips, diarization, snapshots, exitStatus,
                   config, original, synth, adjust, engines, extract>>
\* the list is written, concatenated and mixed with the instrumental
MixStage ==
    /\ pc = "Mix"
    /\ Begin("Mix")
    /\ \E probed \in BOOLEAN :
         /\ concat' = MixResult(probed).blocks
         /\ silence' = MixResult(probed).files
         /\ errors' = errors \cup {<<site, idx>> : site \in ProbeErrors(probed)}
    /\ mixed' = TRUE
    /\ pc' = "Remux"
    /\ UNCHANGED <<sub, idx, segments, clips, diarization, snapshots, output, exitStatus,
                   config, original, synth, adjust, engines, extract>>

\* get_silence raises on the k-th block of the list (check=True): the list stops there
MixSilenceRaise ==
    /\ pc = "Mix"
    /\ Begin("Mix")
    /\ \E probed \in BOOLEAN :
         LET r == MixResult(probed) IN
         \E k \in 1..Len(r.blocks) :
            /\ r.blocks[k].kind = "silence"
            /\ r.blocks[k].name \notin DOMAIN silence
            /\ concat' = SubSeq(r.blocks, 1, k - 1)
            /\ silence' = [n \in DOMAIN silence \cup
                                 {r.blocks[j].name : j \in {j \in 1..(k - 1) :
                                                              r.blocks[j].kind = "silence"}}
                              |-> r.files[n]]
            /\ AbortWith({"silence"} \cup ProbeErrors(probed))
    /\ UNCHANGED <<sub, idx, segments, clips, diarization, snapshots, mixed, output,
                   config, original, synth, adjust, engines, extract>>

\* the concatenation or the ducked mix fails (check=True)
MixRaise ==
    /\ pc = "Mix"
    /\ Begin("Mix")
    /\ \E probed \in BOOLEAN, site \in {"concat", "duck"} :
         /\ concat' = MixResult(probed).blocks
         /\ silence' = MixResult(probed).files
         /\ AbortWith({site} \cup ProbeErrors(probed))
    /\ UNCHANGED <<sub, idx, segments, clips, diarization, snapshots, mixed, output,
                   config, original, synth, adjust, engines, extract>>

\* mutant: the subtitles are generated whatever the configuration says
MutAlwaysSubtitles == "Subtitles"
\* lines 164-168: subtitles only when the configuration asks for them
AfterRemux == IF config.generate_subtitles THEN "Subtitles" ELSE "Done"

\* the process ends normally when run returns
Finish(next) == exitStatus' = IF next = "Done" THEN Exited(0) ELSE exitStatus

\* 7. the output directory is created and the video remuxed
Remux ==
    /\ pc = "Remux"
    /\ Begin("Remux")
    /\ output' = [output EXCEPT !.dir = TRUE, !.video = "complete"]
    /\ pc' = AfterRemux
    /\ Finish(AfterRemux)
    /\ UNCHANGED <<sub, idx, segments, clips, diarization, snapshots, silence, concat,
                   mixed, config, original, errors, synth, adjust, engines, extract>>

\* the directory cannot be created
RemuxMkdirRaise ==
    /\ pc = "Remux"
    /\ Begin("Remux")
    /\ Abort("mkdir")
    /\ UNCHANGED <<sub, idx, segments, clips, diarization, snapshots, silence, concat,
                   mixed, output, config, original, synth, adjust, engines, extract>>

\* ffmpeg fails: it is given the output path itself, so what it wrote before failing stays
RemuxRaise ==
    /\ pc = "Remux"
    /\ Begin("Remux")
    /\ \E left \in {"absent", "partial"} :
         output' = [output EXCEPT !.dir = TRUE, !.video = left]
    /\ Abort("remux")
    /\ UNCHANGED <<sub, idx, segments, clips, diarization, snapshots, silence, concat,
                   mixed, config, original, synth, adjust, engines, extract>>

\* mutant: a segment without translated text gets no block
MutSubtitlesSkipEmpty(segs) ==
    LET kept == SelectSeq(segs, LAMBDA seg : ~NoTranslation(seg)) IN
    [i \in 1..Len(kept) |->
        [index |-> i, start |-> kept[i].start, end |-> kept[i].end,
         text |-> kept[i].translated_text]]
\* generate_subtitles: one block per segment of the list
SubtitleBlocks(segs) ==
    [i \in 1..Len(segs) |->
        [index |-> i, start |-> segs[i].start, end |-> segs[i].end,
         text |-> IF NoTranslation(segs[i]) THEN "" ELSE segs[i].translated_text]]

\* 8. the .srt file is written beside the video
Subtitles ==
    /\ pc = "Subtitles"
    /\ Begin("Subtitles")
    /\ output' = [output EXCEPT !.srt = Written(SubtitleBlocks(segments))]
    /\ pc' = "Done"
    /\ Finish("Done")
    /\ UNCHANGED <<sub, idx, segments, clips, diarization, snapshots, silence, concat,
                   mixed, config, original, errors, synth, adjust, engines, extract>>

\* the .srt file cannot be opened for writing
SubtitlesRaise ==
    /\ pc = "Subtitles"
    /\ Begin("Subtitles")
    /\ Abort("subtitles")
    /\ UNCHANGED <<sub, idx, segments, clips, diarization, snapshots, silence, concat,
                   mixed, output, config, original, synth, adjust, engines, extract>>

Next ==
    \/ ExtractAudio \/ ExtractRaise
    \/ SeparateAudio \/ SeparateRaise
    \/ Transcribe \/ TranscribeRaise
    \/ Diarize \/ DiarizeRaise
    \/ AlignStep \/ AlignRaise
    \/ SaveTranscribed \/ SaveTranscribedRaise
    \/ TranslateInit \/ TranslateStep \/ TranslateRaise
    \/ SaveTranslated \/ SaveTranslatedRaise
    \/ SynthesizeInit \/ SynthesizeInitRaise
    \/ SynthSkip \/ SynthOk \/ SynthRaise \/ AdjustRaise
    \/ MixStage \/ MixSilenceRaise \/ MixRaise
    \/ Remux \/ RemuxMkdirRaise \/ RemuxRaise
    \/ Subtitles \/ SubtitlesRaise

Spec == Init /\ [][Next]_vars

\* the run under the scheduling of a sequential program: it never stops half-way
LiveSpec == Spec /\ WF_vars(Next)

(***************************************************************************)
(* align_speakers on its own: the alignment loop of a run that has reached *)
(* it, over every window and every annotation of the harness grid.  The    *)
(* list holds the segment under study and the one that follows it, so that *)
(* the annotation is still in scope when the first speaker has been set.   *)
(***************************************************************************)
AlignWindows == {w \in [start : 0..MaxAlignT, end : 0..MaxAlignT] : w.start < w.end}


InitAlign ==
    /\ pc = "TranscribeDiarize"
    /\ sub = "align"
    /\ idx = 1
    /\ \E w \in AlignWindows :
         segments = <<Segment(0, w.start, w.end, "hi"),
                      Segment(1, w.end, w.end + 1, "hi")>>
    /\ clips = <<NoFile, NoFile>>
    /\ diarization \in Annotations(0..MaxAlignT, MaxTracks)
    /\ snapshots = [transcribed |-> NoFileYet, translated |-> NoFileYet]
    /\ silence = <<>>
    /\ concat = <<>>
    /\ mixed = FALSE
    /\ output = [dir |-> FALSE, video |-> "absent", srt |-> NoFileYet]
    /\ exitStatus = Running
    /\ config = [generate_subtitles |-> FALSE]
    /\ original = MaxAlignT + 1
    /\ started = <<"Extract", "Separate", "TranscribeDiarize">>
    /\ errors = {}
    /\ synth = <<"pending", "pending">>
    /\ adjust = NoCall
    /\ engines = Use(NoEngines, "whisper")
    /\ extract = Extracted

NextAlign == AlignStep

SpecAlign == InitAlign /\ [][NextAlign]_vars

\* the summed overlap of the tracks of ann labelled label with the window of seg
RECURSIVE SummedOverlap(_, _, _)
SummedOverlap(label, seg, ann) ==
    IF ann = <<>> THEN 0
    ELSE (IF ann[1].label = label THEN Overlap(seg, ann[1]) ELSE 0)
         + SummedOverlap(label, seg, Tail(ann))

LabelsOf(ann) == {ann[i].label : i \in 1..Len(ann)}
SomeOverlap(seg, ann) == \E i \in 1..Len(ann) : Overlap(seg, ann[i]) > 0

\* the position of the first track of ann labelled label
FirstListed(label, ann) ==
    CHOOSE i \in 1..Len(ann) :
        ann[i].label = label /\ \A j \in 1..(i - 1) : ann[j].label # label

\* the position of the first track of ann labelled label that overlaps seg
FirstOverlapping(label, seg, ann) ==
    CHOOSE i \in 1..Len(ann) :
        /\ ann[i].label = label /\ Overlap(seg, ann[i]) > 0
        /\ \A j \in 1..(i - 1) : ~(ann[j].label = label /\ Overlap(seg, ann[j]) > 0)

\* the segments whose speaker the alignment loop has set while the annotation is in scope
Aligned == IF sub = "align" THEN 1..(idx - 1) ELSE {}

C9_DefaultSpeaker ==
    \A i \in Aligned :
        ~SomeOverlap(segments[i], diarization) => segments[i].speaker_id = DefaultSpeaker

\* C9 witness: a segment has been aligned against tracks of another speaker, none of
\* which overlaps it
C9_Witness ==
    /\ 1 \in Aligned
    /\ diarization # <<>>
    /\ LabelsOf(diarization) = {"SPEAKER_01"}
    /\ ~SomeOverlap(segments[1], diarization)
    /\ segments[1].speaker_id = DefaultSpeaker

(***************************************************************************)
(* create_mixed_audio on its own: the Mix stage of a run that has reached  *)
(* it, over lists of segments in any order, with or without a clip, whose  *)
(* clip is as long as the window or three times as long.                   *)
(***************************************************************************)
MixWindows == {w \in [start : Times, end : Times] : w.start < w.end}

\* a segment as the Mix stage may receive it, with the duration of its clip
MixInputs ==
    UNION {{[seg |-> [Segment(0, w.start, w.end, "hi") EXCEPT
                         !.speaker_id = DefaultSpeaker,
                         !.translated_text = "bonjour",
                         !.audio_path = IF d = NoFile THEN None ELSE "wav"],
             clip |-> d] : d \in {NoFile, w.end - w.start, 3 * (w.end - w.start)}}
           : w \in MixWindows}

InitMix ==
    /\ pc = "Mix"
    /\ sub = "-"
    /\ idx = 0
    /\ original \in Times
    /\ \E ins \in SeqsUpTo(MixInputs, MaxSegs) :
         /\ \A i \in 1..Len(ins) : ins[i].seg.end <= original
         /\ segments = [i \in 1..Len(ins) |-> [ins[i].seg EXCEPT !.id = i - 1]]
         /\ clips = [i \in 1..Len(ins) |-> ins[i].clip]
         /\ synth = [i \in 1..Len(ins) |-> IF ins[i].clip = NoFile THEN "failed" ELSE "ok"]
    /\ diarization = <<>>
    /\ snapshots = [transcribed |-> Written(<<>>), translated |-> Written(<<>>)]
    /\ silence = <<>>
    /\ concat = <<>>
    /\ mixed = FALSE
    /\ output = [dir |-> FALSE, video |-> "absent", srt |-> NoFileYet]
    /\ exitStatus = Running
    /\ config = [generate_subtitles |-> FALSE]
    /\ started = <<"Extract", "Separate", "TranscribeDiarize", "Translate", "Synthesize">>
    /\ errors = {}
    /\ adjust = NoCall
    /\ engines = EnginesLoaded
    /\ extract = Extracted

NextMix == MixStage \/ MixSilenceRaise \/ MixRaise

SpecMix == InitMix /\ [][NextMix]_vars

\* the windows of segs are strictly ascending and do not overlap
AscendingWindows(segs) ==
    \A i \in 1..(Len(segs) - 1) : segs[i].end <= segs[i + 1].start

\* every segment of segs has a clip, as long as its window
ExactClips(segs, cl) ==
    \A i \in 1..Len(segs) :
        ~MissingAudio(segs[i], cl[i]) /\ cl[i] = segs[i].end - segs[i].start

Abs(n) == IF n < 0 THEN -n ELSE n

MixReturned == "Mix" \in {started[i] : i \in 1..Len(started)} /\ mixed
Probed == \A e \in errors : e[1] # "probe"

\* C1 as stated: when create_mixed_audio has returned for segments with strictly
\* ascending, non-overlapping windows and clips as long as the windows, the blocks of
\* the concat list add up to the probed original duration within 10 ms
C1_AsStated ==
    (MixReturned /\ Probed /\ AscendingWindows(segments) /\ ExactClips(segments, clips))
        => Abs(TotalDuration(concat) - original) <= 10

(***************************************************************************)
(* The run: what the claims read off a state.                              *)
(***************************************************************************)
Began(stage) == \E i \in 1..Len(started) : started[i] = stage
ErrorSites == {e[1] : e \in errors}

\* the stages of this run, in order
RunOrder == IF config.generate_subtitles THEN StageOrder ELSE SubSeq(StageOrder, 1, 7)

\* the exceptions that are caught where they are raised
SegmentSites == {"synthesize", "adjust_duration"}
DiarizationSites == {"diarize_load", "diarize_call", "align"}
CaughtSites == SegmentSites \cup DiarizationSites \cup {"probe"}

\* the stage in which an engine call is made
StageOf(site) ==
    CASE site = "extract" -> "Extract"
      [] site = "separate" -> "Separate"
      [] site \in {"transcribe", "save_transcribed"} \cup DiarizationSites -> "TranscribeDiarize"
      [] site \in {"translate", "save_translated"} -> "Translate"
      [] site \in {"tts_setup"} \cup SegmentSites -> "Synthesize"
      [] site \in {"probe", "silence", "concat", "duck"} -> "Mix"
      [] site \in {"mkdir", "remux"} -> "Remux"
      [] site = "subtitles" -> "Subtitles"

SegName(seg) == <<"seg", seg.id>>

\* the concat list of this run had segment k been given a clip as long as its window
ListWithClip(k) ==
    ConcatList([segments EXCEPT ![k].audio_path = "wav"],
               [clips EXCEPT ![k] = segments[k].end - segments[k].start],
               IF Probed THEN original ELSE FallbackDuration(segments),
               <<>>).blocks

\* C2 as stated: once the voice track is assembled, for every segment whose synthesis
\* or duration match failed, every other segment that has audio is in the track, at
\* the offset it would have had the failed segment been given its clip; and a run is
\* never aborted without an exception other than the caught ones
C2_AsStated ==
    /\ MixReturned =>
         \A k \in 1..Len(segments) : synth[k] = "failed" =>
            \A j \in 1..Len(segments) :
               (j # k /\ ~MissingAudio(segments[j], clips[j])) =>
                  /\ OffsetOf(concat, SegName(segments[j])) # -1
                  /\ OffsetOf(concat, SegName(segments[j]))
                       = OffsetOf(ListWithClip(k), SegName(segments[j]))
    /\ pc = "Failed" => ~(ErrorSites \subseteq CaughtSites)

\* C3: the stages that have begun are a prefix of Extract, Separate, TranscribeDiarize,
\* Translate, Synthesize, Mix, Remux and (only when enabled) Subtitles; the run is in
\* the last stage begun or about to begin the next; at Done all have begun; and a
\* stage has begun only when the previous one is through with every segment
C3_StageOrder ==
    /\ Len(started) <= Len(RunOrder)
    /\ started = SubSeq(RunOrder, 1, Len(started))
    /\ pc = "Done" => started = RunOrder
    /\ pc \notin {"Done", "Failed"} =>
         \/ started # <<>> /\ pc = Last(started)
         \/ Len(started) < Len(RunOrder) /\ pc = RunOrder[Len(started) + 1]
    /\ Began("Translate") => \A i \in 1..Len(segments) : segments[i].speaker_id # None
    /\ Began("Synthesize") => \A i \in 1..Len(segments) : segments[i].translated_text # None
    /\ Began("Mix") => \A i \in 1..Len(segments) : synth[i] # "pending"

\* C3 witness: a run over two segments with subtitles enabled is done
C3_Witness ==
    /\ pc = "Done"
    /\ config.generate_subtitles
    /\ Len(segments) = 2
    /\ started = StageOrder

\* C4 as stated: a failed run has written no output video, and a run that is done
\* has written the complete output video
C4_AsStated ==
    /\ pc = "Failed" => output.video = "absent"
    /\ pc = "Done" => output.video = "complete"

\* the failures C5 names
C5Sites == {"extract", "separate", "transcribe", "translate", "silence", "concat",
            "duck", "remux"}

\* C5: once extraction, separation, transcription, translation, silence generation,
\* concatenation, the ducked mix or the remux has failed, the run is aborted, the
\* process has exited with a non-zero status, and the last stage begun is the one
\* that failed
C5_FatalAborts ==
    \A e \in errors : e[1] \in C5Sites =>
        /\ pc = "Failed"
        /\ exitStatus.exited /\ exitStatus.status # 0
        /\ Last(started) = StageOf(e[1])

\* C5 witness: the ducked mix of a run over two segments has failed
C5_Witness ==
    /\ "duck" \in ErrorSites
    /\ Len(segments) = 2
    /\ pc = "Failed"

\* C6: a failed run has an exception other than a diarization failure or a segment's
\* synthesis or duration-match failure; the step in which one of these is raised
\* leaves the run going, at the next segment or stage; and every run ends done
\* unless an exception of another kind is raised
C6_Recoverable ==
    /\ [](pc = "Failed" => ~(ErrorSites \subseteq SegmentSites \cup DiarizationSites))
    /\ [][\A e \in errors' \ errors :
            /\ e[1] \in SegmentSites =>
                 /\ ~exitStatus'.exited
                 /\ \/ pc' = "Synthesize" /\ idx' = idx + 1
                    \/ pc' = "Mix" /\ idx = Len(segments)
            /\ e[1] \in DiarizationSites =>
                 /\ ~exitStatus'.exited
                 /\ pc' = "TranscribeDiarize" /\ sub' = "save"]_vars
    /\ <>(pc = "Done" \/ ~(ErrorSites \subseteq CaughtSites))

\* C6 witness: a run is done in which an alignment, a synthesis and a duration match failed
C6_Witness ==
    /\ pc = "Done"
    /\ {"align", "synthesize", "adjust_duration"} \subseteq ErrorSites

\* C7: from the start of Translate on, the transcript snapshot holds one record per
\* segment, taken before translation; from the start of Synthesize on, whatever
\* fails later, the translated snapshot too holds one record per segment, taken after
\* translation and before synthesis
C7_Snapshots ==
    /\ (pc = "Translate" \/ Began("Translate")) =>
         /\ snapshots.transcribed.exists
         /\ Len(snapshots.transcribed.records) = Len(segments)
         /\ \A i \in 1..Len(segments) :
              /\ snapshots.transcribed.records[i].id = segments[i].id
              /\ snapshots.transcribed.records[i].speaker_id = segments[i].speaker_id
              /\ snapshots.transcribed.records[i].translated_text = None
    /\ (pc = "Synthesize" \/ Began("Synthesize")) =>
         /\ snapshots.transcribed.exists
         /\ snapshots.translated.exists
         /\ Len(snapshots.translated.records) = Len(segments)
         /\ \A i \in 1..Len(segments) :
              /\ snapshots.translated.records[i].id = segments[i].id
              /\ snapshots.translated.records[i].translated_text
                   = segments[i].translated_text
              /\ snapshots.translated.records[i].audio_path = None

\* C7 witness: the remux of a run over two segments has failed, both snapshots are there
C7_Witness ==
    /\ pc = "Failed"
    /\ "remux" \in ErrorSites
    /\ Len(segments) = 2
    /\ Len(snapshots.transcribed.records) = 2
    /\ Len(snapshots.translated.records) = 2

\* C10: once diarization has failed (load, call or alignment), the stage is past
\* diarization and alignment, every segment has the default speaker SPEAKER_00, and
\* the run is not aborted unless something else fails
C10_DiarizationFallback ==
    (ErrorSites \cap DiarizationSites # {}) =>
        /\ \A i \in 1..Len(segments) : segments[i].speaker_id = DefaultSpeaker
        /\ ~(pc = "TranscribeDiarize" /\ sub \in {"diarize", "align"})
        /\ pc = "Failed" => ~(ErrorSites \subseteq CaughtSites)

\* C10 witness: the alignment failed on the second of two segments, after the first
\* had its speaker, and the run is in Translate
C10_Witness ==
    /\ <<"align", 2>> \in errors
    /\ Len(segments) = 2
    /\ pc = "Translate"

(***************************************************************************)
(* adjust_duration step by step: one call on one clip, as the Synthesize   *)
(* loop makes it (pipeline.py line 147).                                   *)
(***************************************************************************)
\* the targets and the clip durations of the calls studied: around the thresholds
\* 0.1 s, 0.5, 0.9, 1.1 and 2.0 times the target
AdjustTargets == {1000, 2000}
AdjustClips == {50, 100, 101, 400, 499, 500, 899, 900, 901, 1000, 1099, 1100, 1101,
                1800, 1999, 2000, 2001, 2200, 4100}

InitAdjust ==
    /\ pc = "Synthesize"
    /\ sub = "probe"
    /\ idx = 1
    /\ \E target \in AdjustTargets, d \in AdjustClips :
         /\ segments = <<[Segment(0, 0, target, "hi") EXCEPT
                            !.speaker_id = DefaultSpeaker, !.translated_text = "bonjour"]>>
         /\ clips = <<d>>
         /\ adjust = Call(d, target)
         /\ engines = EnginesLoaded
         /\ extract = Extracted
    /\ diarization = <<>>
    /\ snapshots = [transcribed |-> Written(<<>>), translated |-> Written(<<>>)]
    /\ silence = <<>>
    /\ concat = <<>>
    /\ mixed = FALSE
    /\ output = [dir |-> FALSE, video |-> "absent", srt |-> NoFileYet]
    /\ exitStatus = Running
    /\ config = [generate_subtitles |-> FALSE]
    /\ original = 2 * 2000
    /\ started = <<"Extract", "Separate", "TranscribeDiarize", "Translate", "Synthesize">>
    /\ errors = {}
    /\ synth = <<"pending">>

\* lines 123-139: the probe (a failed one reads as 0.0), then the two early returns
AdjustProbe ==
    /\ pc = "Synthesize" /\ sub = "probe"
    /\ \E probed \in BOOLEAN :
         LET current_duration == IF probed THEN clips[idx] ELSE 0 IN
         /\ sub' = IF NeedsStretch(current_duration, adjust.target) THEN "tempo" ELSE "returned"
         /\ errors' = IF probed THEN errors ELSE errors \cup {<<"adjust_probe", idx>>}
    /\ UNCHANGED <<pc, idx, segments, clips, diarization, snapshots, silence, concat, mixed,
                   output, exitStatus, config, original, started, synth, adjust, engines,
                   extract>>

\* lines 143-152: the tempo engine writes the resampled clip to temp_path
AdjustTempo ==
    /\ pc = "Synthesize" /\ sub = "tempo"
    /\ adjust' = [adjust EXCEPT
                    !.runs = Append(@, TempoRun(clips[idx], Speed(clips[idx], adjust.target))),
                    !.temp = Stretched(clips[idx], adjust.target)]
    /\ sub' = "move"
    /\ UNCHANGED <<pc, idx, segments, clips, diarization, snapshots, silence, concat, mixed,
                   output, exitStatus, config, original, started, errors, synth, engines,
                   extract>>

\* mutant: the tempo engine is given the clip's own path as its output
MutTempoRaiseInPlace ==
    /\ pc = "Synthesize" /\ sub = "tempo"
    /\ adjust' = [adjust EXCEPT
                    !.runs = Append(@, TempoRun(clips[idx], Speed(clips[idx], adjust.target)))]
    /\ \E left \in PartialOutputs(Stretched(clips[idx], adjust.target)) :
         clips' = [clips EXCEPT ![idx] = left]
    /\ sub' = "raised"
    /\ Raise("tempo")
    /\ UNCHANGED <<pc, idx, segments, diarization, snapshots, silence, concat, mixed,
                   output, exitStatus, config, original, started, synth, engines, extract>>
\* line 152, check=True: the tempo engine fails, CalledProcessError leaves the call
AdjustTempoRaise ==
    /\ pc = "Synthesize" /\ sub = "tempo"
    /\ \E left \in PartialOutputs(Stretched(clips[idx], adjust.target)) :
         adjust' = [adjust EXCEPT
                      !.runs = Append(@, TempoRun(clips[idx], Speed(clips[idx], adjust.target))),
                      !.temp = left]
    /\ sub' = "raised"
    /\ Raise("tempo")
    /\ UNCHANGED <<pc, idx, segments, clips, diarization, snapshots, silence, concat, mixed,
                   output, exitStatus, config, original, started, synth, engines, extract>>

\* line 153: shutil.move(temp_path, audio_path), a rename inside the tts directory
AdjustMove ==
    /\ pc = "Synthesize" /\ sub = "move"
    /\ clips' = [clips EXCEPT ![idx] = adjust.temp]
    /\ adjust' = [adjust EXCEPT !.temp = NoFile]
    /\ sub' = "returned"
    /\ UNCHANGED <<pc, idx, segments, diarization, snapshots, silence, concat, mixed,
                   output, exitStatus, config, original, started, errors, synth, engines,
                   extract>>

\* the rename fails: both files stay as they were
AdjustMoveRaise ==
    /\ pc = "Synthesize" /\ sub = "move"
    /\ sub' = "raised"
    /\ Raise("move")
    /\ UNCHANGED <<pc, idx, segments, clips, diarization, snapshots, silence, concat, mixed,
                   output, exitStatus, config, original, started, synth, adjust, engines,
                   extract>>

NextAdjust ==
    \/ AdjustProbe
    \/ AdjustTempo \/ AdjustTempoRaise
    \/ AdjustMove \/ AdjustMoveRaise

SpecAdjust == InitAdjust /\ [][NextAdjust]_vars

\* the call has ended, by returning or by raising
AdjustEnded == sub \in {"returned", "raised"}
\* the probe of the call measured the clip
AdjustProbed == \A e \in errors : e[1] # "adjust_probe"

\* C11: every tempo factor handed to the tempo engine, for a clip measured above 0.1 s
\* and a positive target, lies in [0.5, 2.0]; it is exactly 2.0 when the clip is more
\* than twice as long as the target and exactly 0.5 when it is less than half as long
C11_TempoClamped ==
    \A k \in 1..Len(adjust.runs) :
        LET speed == adjust.runs[k].speed IN
        /\ speed[2] > 0
        /\ speed[2] <= 2 * speed[1] /\ speed[1] <= 2 * speed[2]
        /\ adjust.before > 2 * adjust.target => speed[1] = 2 * speed[2]
        /\ 2 * adjust.before < adjust.target => 2 * speed[1] = speed[2]

\* C11 witness: a clip more than twice as long as its target went through the tempo
\* engine and the call returned
C11_Witness ==
    /\ sub = "returned"
    /\ adjust.before > 2 * adjust.target
    /\ Len(adjust.runs) = 1

\* |current - target| / target < 0.1
NearTarget == 10 * Abs(adjust.before - adjust.target) < adjust.target

\* C12: a clip within a tenth of its target goes through no tempo run and its file is
\* unchanged; any other clip measured above 0.1 s goes through exactly one tempo run
\* by the time the call has ended; no call makes more than one
C12_NearTargetUntouched ==
    /\ NearTarget => adjust.runs = <<>> /\ clips[idx] = adjust.before /\ adjust.temp = NoFile
    /\ (AdjustEnded /\ AdjustProbed /\ ~NearTarget /\ adjust.before > MinStretchable)
          => Len(adjust.runs) = 1
    /\ Len(adjust.runs) <= 1

\* C12 witness: the call has returned for a clip longer than 0.1 s, within a tenth of
\* its target but not of the target's length
C12_Witness ==
    /\ sub = "returned"
    /\ AdjustProbed
    /\ NearTarget
    /\ adjust.before > MinStretchable /\ adjust.before # adjust.target

\* C17: once the tempo run has failed the clip is the clip the call was entered with;
\* and the clip changes only in the move, after a tempo run that succeeded, to the
\* fully resampled clip
C17_ClipSurvivesFailure ==
    /\ []("tempo" \in ErrorSites => clips[idx] = adjust.before)
    /\ [][clips' # clips =>
            /\ sub = "move"
            /\ adjust.temp = Stretched(adjust.before, adjust.target)
            /\ clips' = [clips EXCEPT ![idx] = adjust.temp]]_vars

\* C17 witness: the tempo run failed leaving a truncated temporary file, the clip is
\* the one the call was entered with
C17_Witness ==
    /\ sub = "raised"
    /\ "tempo" \in ErrorSites
    /\ adjust.temp # NoFile
    /\ clips[idx] = adjust.before

(***************************************************************************)
(* models.py: Segment constructed directly, beside the run.                *)
(***************************************************************************)
\* the start and end handed to the constructor: any two times of the grid
SegmentArgs == [start : Times, end : Times]

InitSegments ==
    /\ pc = "TranscribeDiarize"
    /\ sub = "construct"
    /\ idx = 0
    /\ segments = <<>>
    /\ clips = <<>>
    /\ diarization = <<>>
    /\ snapshots = [transcribed |-> NoFileYet, translated |-> NoFileYet]
    /\ silence = <<>>
    /\ concat = <<>>
    /\ mixed = FALSE
    /\ output = [dir |-> FALSE, video |-> "absent", srt |-> NoFileYet]
    /\ exitStatus = Running
    /\ config = [generate_subtitles |-> FALSE]
    /\ original \in Originals
    /\ started = <<"Extract", "Separate", "TranscribeDiarize">>
    /\ errors = {}
    /\ synth = <<>>
    /\ adjust = NoCall
    /\ engines = Use(NoEngines, "whisper")
    /\ extract = Extracted

\* Segment(id=, start=, end=, source_text=) passes the validator: the object exists
Construct ==
    /\ sub = "construct"
    /\ Len(segments) < MaxSegs
    /\ \E a \in SegmentArgs :
         LET seg == Segment(Len(segments), a.start, a.end, "hi") IN
         /\ CheckTimestamps(seg)
         /\ segments' = Append(segments, seg)
    /\ clips' = Append(clips, NoFile)
    /\ synth' = Append(synth, "pending")
    /\ UNCHANGED <<pc, sub, idx, diarization, snapshots, silence, concat, mixed, output,
                   exitStatus, config, original, started, errors, adjust, engines, extract>>

\* the validator raises ValueError: no object
ConstructRaise ==
    /\ sub = "construct"
    /\ Len(segments) < MaxSegs
    /\ \E a \in SegmentArgs :
         ~CheckTimestamps(Segment(Len(segments), a.start, a.end, "hi"))
    /\ errors' = errors \cup {<<"check_timestamps", Len(segments)>>}
    /\ UNCHANGED <<pc, sub, idx, segments, clips, diarization, snapshots, silence, concat,
                   mixed, output, exitStatus, config, original, started, synth, adjust,
                   engines, extract>>

NextSegments == Construct \/ ConstructRaise

\* the run, and the constructor used directly
SpecSegments == (Init \/ InitSegments) /\ [][Next \/ NextSegments]_vars

\* C13: every Segment that exists, constructed directly or held in the run's list at
\* any stage, has end > start: the constructor raises for end <= start
C13_EndAfterStart ==
    \A i \in 1..Len(segments) : segments[i].end > segments[i].start

\* C13 witness: the constructor has raised for one pair of timestamps and has built
\* two segments from others
C13_Witness ==
    /\ sub = "construct"
    /\ "check_timestamps" \in ErrorSites
    /\ Len(segments) = 2

(***************************************************************************)
(* The segment list through the run.                                       *)
(***************************************************************************)
\* what makes a segment the segment it is
Identity(seg) == [id |-> seg.id, start |-> seg.start, end |-> seg.end,
                  source_text |-> seg.source_text]

\* C14: once transcribe has returned, every step leaves the list with the same
\* segments in the same order; and a segment whose synthesis or duration match failed
\* is in the list with no audio handle
C14_SameSegments ==
    /\ [][Began("TranscribeDiarize") =>
            /\ Len(segments') = Len(segments)
            /\ \A i \in 1..Len(segments) : Identity(segments'[i]) = Identity(segments[i])]_vars
    /\ [](/\ Len(synth) = Len(segments)
          /\ \A i \in 1..Len(segments) :
               synth[i] = "failed" => segments[i].audio_path = None)

\* C14 witness: a run over two segments is done, the first failed in synthesis and
\* the second has its clip
C14_Witness ==
    /\ pc = "Done"
    /\ Len(segments) = 2
    /\ synth = <<"failed", "ok">>
    /\ segments[1].audio_path = None
    /\ segments[2].audio_path # None

(***************************************************************************)
(* The timeline create_mixed_audio assembles.                              *)
(***************************************************************************)
\* the positions of the clip blocks of a concat list
ClipPositions(blocks) == {k \in 1..Len(blocks) : blocks[k].kind = "clip"}

\* the segment a clip block was written for
SegmentOf(block) ==
    CHOOSE seg \in {segments[i] : i \in 1..Len(segments)} : SegName(seg) = block.name

\* C15 as stated: in the assembled timeline the clips come in ascending order of
\* their segments' start, whatever the order of the list handed to the assembler
C15_AsStated ==
    MixReturned =>
        \A a, b \in ClipPositions(concat) :
            a < b => SegmentOf(concat[a]).start <= SegmentOf(concat[b]).start

\* the end of the last segment of the list that has audio (0: none has)
RECURSIVE LastPlacedEnd(_, _, _)
LastPlacedEnd(segs, cl, i) ==
    IF i = 0 THEN 0
    ELSE IF MissingAudio(segs[i], cl[i]) THEN LastPlacedEnd(segs, cl, i - 1)
    ELSE segs[i].end

\* the trailing silence of a concat list: its duration (0: the list has none)
TrailingSilence(blocks) ==
    IF blocks # <<>> /\ Last(blocks).kind = "silence" /\ Last(blocks).name = <<"end", 0>>
    THEN Last(blocks).dur ELSE 0

\* C16: when the probe of the original has failed, that alone never aborts the call,
\* and the assembly that returns has taken the end of the last segment of the list
\* (0 for an empty list) as the total: the trailing silence runs from the last placed
\* segment to it, and is absent when that is within 10 ms
C16_ProbeFallback ==
    ("probe" \in ErrorSites) =>
        /\ pc = "Failed" => ErrorSites # {"probe"}
        /\ MixReturned =>
             LET total == IF segments = <<>> THEN 0 ELSE segments[Len(segments)].end
                 remaining == total - LastPlacedEnd(segments, clips, Len(segments))
             IN /\ TrailingSilence(concat) = IF remaining > 10 THEN remaining ELSE 0
                /\ pc = "Remux"

\* C16 witness: the probe failed, the assembly returned, and the trailing silence
\* reaches the end of the last segment of the list, which has no audio
C16_Witness ==
    /\ "probe" \in ErrorSites
    /\ MixReturned
    /\ Len(segments) = 2
    /\ segments[1].audio_path # None /\ segments[2].audio_path = None
    /\ TrailingSilence(concat) = segments[2].end - segments[1].end
    /\ TrailingSilence(concat) > 0

(***************************************************************************)
(* generate_subtitles called on a list of its own, as the tests call it.   *)
(***************************************************************************)
\* the translated text of a segment handed to generate_subtitles
SubtitleTexts == {None, "", "bonjour"}

SubtitleInputs ==
    {[Segment(0, w.start, w.end, "hi") EXCEPT
         !.speaker_id = DefaultSpeaker, !.translated_text = text] :
       w \in {a \in SegmentArgs : a.start < a.end}, text \in SubtitleTexts}

InitSubtitles ==
    /\ pc = "Subtitles"
    /\ sub = "-"
    /\ idx = 0
    /\ \E ins \in SeqsUpTo(SubtitleInputs, MaxSegs) :
         /\ segments = [i \in 1..Len(ins) |-> [ins[i] EXCEPT !.id = i - 1]]
         /\ clips = [i \in 1..Len(ins) |-> NoFile]
         /\ synth = [i \in 1..Len(ins) |-> "failed"]
    /\ diarization = <<>>
    /\ snapshots = [transcribed |-> Written(<<>>), translated |-> Written(<<>>)]
    /\ silence = <<>>
    /\ concat = <<>>
    /\ mixed = TRUE
    /\ output = [dir |-> TRUE, video |-> "complete", srt |-> NoFileYet]
    /\ exitStatus = Running
    /\ config = [generate_subtitles |-> TRUE]
    /\ original \in Originals
    /\ started = SubSeq(StageOrder, 1, 7)
    /\ errors = {}
    /\ adjust = NoCall
    /\ engines = EnginesLoaded
    /\ extract = Extracted

NextSubtitles == Subtitles \/ SubtitlesRaise

SpecSubtitles == InitSubtitles /\ [][NextSubtitles]_vars

\* C18: the .srt file written holds exactly one block per segment of the list,
\* numbered 1, 2, ... in list order, each with the segment's two timestamps and its
\* translated text; the text is empty for a segment whose translated text is absent
\* or empty
C18_OneBlockPerSegment ==
    output.srt.exists =>
        /\ Len(output.srt.records) = Len(segments)
        /\ \A i \in 1..Len(segments) :
             LET block == output.srt.records[i] IN
             /\ block.index = i
             /\ block.start = segments[i].start /\ block.end = segments[i].end
             /\ block.text = IF segments[i].translated_text \in {None, ""}
                             THEN "" ELSE segments[i].translated_text

\* C18 witness: the file is written for a segment without translated text followed
\* by one whose translated text is empty
C18_Witness ==
    /\ output.srt.exists
    /\ Len(segments) = 2
    /\ segments[1].translated_text = None
    /\ segments[2].translated_text = ""
    /\ Len(output.srt.records) = 2

(***************************************************************************)
(* create_mixed_audio called again in the same work directory: the default *)
(* work directory of the command line is the same for every run.           *)
(***************************************************************************)
\* the number of calls that share the work directory
MaxCalls == 2
\* the longest list of a later call
MaxRemixSegs == 1

\* the calls begun so far
CallsBegun == Cardinality({i \in 1..Len(started) : started[i] = "Mix"})

\* a later call is entered after the earlier one returned: another original, another
\* list; the silence files of the work directory are still there, the concat list
\* and the mixed audio of the new call are not written yet
MixAgain ==
    /\ pc = "Remux"
    /\ CallsBegun < MaxCalls
    /\ \E total \in Times, ins \in SeqsUpTo(MixInputs, MaxRemixSegs) :
         /\ \A i \in 1..Len(ins) : ins[i].seg.end <= total
         /\ original' = total
         /\ segments' = [i \in 1..Len(ins) |-> [ins[i].seg EXCEPT !.id = i - 1]]
         /\ clips' = [i \in 1..Len(ins) |-> ins[i].clip]
         /\ synth' = [i \in 1..Len(ins) |-> IF ins[i].clip = NoFile THEN "failed" ELSE "ok"]
    /\ pc' = "Mix"
    /\ concat' = <<>>
    /\ mixed' = FALSE
    /\ errors' = {}
    /\ UNCHANGED <<sub, idx, diarization, snapshots, silence, output, exitStatus, config,
                   started, adjust, engines, extract>>

NextRemix == NextMix \/ MixAgain

SpecRemix == InitMix /\ [][NextRemix]_vars

\* the total duration the call that returned worked with
TotalUsed == IF Probed THEN original ELSE FallbackDuration(segments)

\* C19 as stated: after any sequence of calls in one work directory, the concat list
\* of the call that returned is the one an empty work directory gives: every silence
\* block has the duration of the gap, or of the remainder, it was requested for
C19_AsStated ==
    MixReturned => concat = ConcatList(segments, clips, TotalUsed, <<>>).blocks

\* segment i of the list has an audio handle and the file is there
HasAudio(i) == segments[i].audio_path # None /\ clips[i] # NoFile

\* the positions of the list that have audio, in list order, from position i on
RECURSIVE PlacedFrom(_)
PlacedFrom(i) ==
    IF i > Len(segments) THEN <<>>
    ELSE (IF HasAudio(i) THEN <<i>> ELSE <<>>) \o PlacedFrom(i + 1)

\* a concat list without the names of its silence files
Shape(blocks) ==
    [k \in 1..Len(blocks) |->
        [kind |-> blocks[k].kind, dur |-> blocks[k].dur,
         seg |-> IF blocks[k].kind = "clip" THEN blocks[k].name ELSE <<>>]]

\* the concat list of the segments that have audio alone, for the same total
ListOfPlaced ==
    LET placed == PlacedFrom(1) IN
    ConcatList([k \in 1..Len(placed) |-> segments[placed[k]]],
               [k \in 1..Len(placed) |-> clips[placed[k]]],
               TotalUsed, <<>>).blocks

\* C20: a segment without an audio handle, or whose file is missing, has no block in
\* the timeline, and the timeline is, block for block, the one of the list without
\* such segments: the skipped window is covered by the gap silence before the next
\* placed segment, or by the trailing silence, and by nothing else
C20_SkippedSegments ==
    MixReturned =>
        /\ \A i \in 1..Len(segments) :
             ~HasAudio(i) => OffsetOf(concat, SegName(segments[i])) = -1
        /\ Shape(concat) = Shape(ListOfPlaced)

\* C20 witness: the first of two segments has no audio, and the timeline is one
\* silence up to the start of the second, then its clip
C20_Witness ==
    /\ MixReturned
    /\ Len(segments) = 2
    /\ ~HasAudio(1) /\ HasAudio(2)
    /\ segments[1].end <= segments[2].start
    /\ Len(concat) >= 2
    /\ concat[1].kind = "silence" /\ concat[1].dur = segments[2].start
    /\ concat[2].name = SegName(segments[2])

(***************************************************************************)
(* The Synthesize loop and the fields of a segment.                        *)
(***************************************************************************)
\* the Synthesize stage is over
SynthesizeOver == pc = "Mix" \/ Began("Mix")

\* what happened to segment i in the loop: its synthesize call raised, its
\* adjust_duration call raised, or both returned
SynthesisFailed(i) == <<"synthesize", i>> \in errors
MatchFailed(i) == <<"adjust_duration", i>> \in errors
Attempted(i) == synth[i] \in {"ok", "failed"}
BothSucceeded(i) == Attempted(i) /\ ~SynthesisFailed(i) /\ ~MatchFailed(i)

\* C21: when the Synthesize stage is over, a segment has an audio handle exactly when
\* its synthesize call and its adjust_duration call both returned; a segment whose
\* clip was synthesized and whose duration match then failed has none
C21_HandleIffBoth ==
    SynthesizeOver =>
        \A i \in 1..Len(segments) :
            /\ segments[i].audio_path # None <=> BothSucceeded(i)
            /\ MatchFailed(i) => segments[i].audio_path = None /\ clips[i] # NoFile

\* C21 witness: the stage is over for two segments, the duration match of the first
\* failed after its clip was written, the second has its handle
C21_Witness ==
    /\ pc = "Mix"
    /\ Len(segments) = 2
    /\ MatchFailed(1) /\ clips[1] # NoFile /\ segments[1].audio_path = None
    /\ BothSucceeded(2) /\ segments[2].audio_path # None

\* C22: in the loop the segments before the position have had their turn and the
\* others not yet; a segment's outcome is set once, at its position; and when the
\* stage is over exactly the segments with translated text have been attempted
C22_OneAttemptEach ==
    /\ []((pc = "Synthesize" /\ sub = "loop") =>
            \A i \in 1..Len(segments) : (synth[i] = "pending") <=> (i >= idx))
    /\ [][Began("Synthesize") =>
            /\ Len(synth') = Len(synth)
            /\ \A i \in 1..Len(synth) :
                 synth'[i] # synth[i] => synth[i] = "pending" /\ i = idx]_vars
    /\ [](SynthesizeOver =>
            \A i \in 1..Len(segments) : Attempted(i) <=> ~NoTranslation(segments[i]))

\* C22 witness: the stage is over for two segments with translated text, the attempt
\* on the first failed and the second was attempted all the same
C22_Witness ==
    /\ pc = "Mix"
    /\ Len(segments) = 2
    /\ synth[1] = "failed" /\ SynthesisFailed(1)
    /\ Attempted(2)

\* the stage that owns each field a stage may write
Owner(field) ==
    CASE field = "speaker_id" -> "TranscribeDiarize"
      [] field = "translated_text" -> "Translate"
      [] field = "audio_path" -> "Synthesize"

\* C23: once transcribe has returned, a step changes the speaker id of a segment only
\* in TranscribeDiarize, its translated text only in Translate and its audio handle
\* only in Synthesize, and never its id, start, end or source text
C23_OwnedFields ==
    [][Began("TranscribeDiarize") =>
         /\ Len(segments') = Len(segments)
         /\ \A i \in 1..Len(segments) :
              /\ Identity(segments'[i]) = Identity(segments[i])
              /\ segments'[i].speaker_id # segments[i].speaker_id
                    => pc = Owner("speaker_id")
              /\ segments'[i].translated_text # segments[i].translated_text
                    => pc = Owner("translated_text")
              /\ segments'[i].audio_path # segments[i].audio_path
                    => pc = Owner("audio_path")]_vars

\* C23 witness: a run over two segments is done, and a segment has had its speaker,
\* its translated text and its audio handle written
C23_Witness ==
    /\ pc = "Done"
    /\ Len(segments) = 2
    /\ segments[2].speaker_id = "SPEAKER_01"
    /\ segments[2].translated_text = "bonjour"
    /\ segments[2].audio_path # None


(***************************************************************************)
(* C24: within one run each engine (transcription, translation, synthesis) *)
(* is loaded at most once, whatever the number of segments and whatever    *)
(* the outcome of the load.  XTTSEngine.load_model keeps the handle only   *)
(* when TTS(...) returns, and synthesize is called inside the per-segment  *)
(* try of pipeline.run: a load that raises is attempted again for each     *)
(* later segment that has a translated text.                               *)
(***************************************************************************)
C24_AsStated == \A e \in EngineNames : engines[e].loads <= 1


(***************************************************************************)
(* C25: adjust_duration does nothing when the probe fails or the measured  *)
(* duration is at most 0.1 s, whatever the target: no tempo run is made,   *)
(* no temporary file is written, the clip is as it was, and the call does  *)
(* not raise.                                                              *)
(***************************************************************************)
C25_NoOpCall == ~AdjustProbed \/ adjust.before <= MinStretchable

C25_ShortOrUnprobedNoOp ==
    C25_NoOpCall =>
        /\ adjust.runs = <<>>
        /\ adjust.temp = NoFile
        /\ clips[idx] = adjust.before
        /\ sub \in {"probe", "returned"}
        /\ \A e \in errors : e[1] = "adjust_probe"

\* C25 witness: the probe failed on a clip four times as long as its target, and the
\* call has returned
C25_Witness ==
    /\ sub = "returned"
    /\ ~AdjustProbed
    /\ adjust.before > 4 * adjust.target


(***************************************************************************)
(* C26: a segment whose translated text is empty is never handed to the    *)
(* synthesis engine nor duration-matched: no attempt, no clip, no error    *)
(* is recorded for it, its audio handle is absent from the start of        *)
(* Synthesize to the end of the run, and the timeline has no block for it. *)
(***************************************************************************)
EmptyText(i) == segments[i].translated_text \in {None, ""}

C26_EmptyNeverSynthesized ==
    Began("Synthesize") =>
        \A i \in 1..Len(segments) :
            EmptyText(i) =>
                /\ synth[i] \in {"pending", "skipped"}
                /\ SynthesizeOver => synth[i] = "skipped"
                /\ ~SynthesisFailed(i) /\ ~MatchFailed(i)
                /\ clips[i] = NoFile
                /\ segments[i].audio_path = None
                /\ OffsetOf(concat, SegName(segments[i])) = -1

\* C26 witness: the run is done; the translation of the first of two segments came
\* back empty and it was skipped, the second was synthesized and is on the timeline
C26_Witness ==
    /\ pc = "Done"
    /\ Len(segments) = 2
    /\ segments[1].source_text # "" /\ EmptyText(1)
    /\ synth = <<"skipped", "ok">>
    /\ OffsetOf(concat, SegName(segments[2])) >= 0


(***************************************************************************)
(* C27: when TranscriptionManager.run has returned a non-empty list, every *)
(* segment has a speaker identity, whether diarization succeeded, found no *)
(* overlap, or failed: no segment reaches Translate or Synthesize with an  *)
(* absent speaker.                                                         *)
(***************************************************************************)
RunReturned == (pc = "TranscribeDiarize" /\ sub = "save") \/ Began("Translate")

C27_SpeakerAlwaysSet ==
    RunReturned => \A i \in 1..Len(segments) : segments[i].speaker_id # None

\* C27 witness: diarization succeeded; of two segments in Translate the first has the
\* speaker of the track that overlaps it, the second, which no track overlaps, has
\* the default speaker
C27_Witness ==
    /\ pc = "Translate"
    /\ ErrorSites \cap DiarizationSites = {}
    /\ Len(segments) = 2
    /\ segments[1].speaker_id # DefaultSpeaker
    /\ segments[2].speaker_id = DefaultSpeaker


(***************************************************************************)
(* C28: nothing is created or written under the output directory before    *)
(* the Mix stage has completed: until Remux begins the directory, the      *)
(* video and the subtitles are as they were at the start, and every step   *)
(* that changes one of them is a step of Remux or Subtitles, taken after   *)
(* create_mixed_audio returned.                                            *)
(***************************************************************************)
OutputUntouched == output = [dir |-> FALSE, video |-> "absent", srt |-> NoFileYet]

C28_OutputFirstInRemux ==
    /\ [](~Began("Remux") => OutputUntouched)
    /\ [](Began("Remux") => MixReturned)
    /\ [][output' # output => pc \in {"Remux", "Subtitles"} /\ MixReturned]_vars

\* C28 witness: Remux has created the directory and written the video, after a Mix
\* that returned
C28_Witness ==
    /\ Began("Remux")
    /\ MixReturned
    /\ output.dir /\ output.video = "complete"
    /\ pc = "Done"


(***************************************************************************)
(* A run whose transcription yielded no segment.                           *)
(***************************************************************************)
\* TranscriptionManager.run has returned [] (transcription.py lines 187-188)
EmptyTranscription == RunReturned /\ segments = <<>>

\* the concat list of create_mixed_audio has been written in full
ListWritten == Began("Mix") /\ "silence" \notin ErrorSites

\* the failures that no engine call on a segment is needed for
SegmentFreeSites ==
    {"save_transcribed", "save_translated", "tts_setup", "probe", "silence", "concat",
     "duck", "mkdir", "remux", "subtitles"}

\* C29 as stated: after a transcription of zero segments the voice track is made of
\* one block, a trailing silence of the original duration
C29_AsStated ==
    (EmptyTranscription /\ ListWritten) =>
        /\ Len(concat) = 1
        /\ TrailingSilence(concat) = original

\* C29: a transcription of zero segments does not abort the run.  No diarization,
\* translation or synthesis call is made (no segment loop is entered, the
\* translation and synthesis engines are never loaded, no such call fails), both
\* snapshots are written empty, only a failure that needs no segment ends the run,
\* and, when the probe of the original succeeded in a work directory without
\* silence files, the voice track is one trailing silence of the original duration
C29_EmptyRunGoesOn ==
    EmptyTranscription =>
        /\ sub \notin {"diarize", "align", "loop"}
        /\ diarization = <<>>
        /\ engines["translation"].loads = 0 /\ engines["tts"].loads = 0
        /\ synth = <<>> /\ clips = <<>>
        /\ ErrorSites \subseteq SegmentFreeSites
        /\ Began("Translate") => snapshots.transcribed = Written(<<>>)
        /\ (pc = "Synthesize" \/ Began("Synthesize")) => snapshots.translated = Written(<<>>)
        /\ (ListWritten /\ Probed) =>
              /\ Len(concat) = 1
              /\ TrailingSilence(concat) = original

\* C29 witness: a run without segments is done, its voice track one trailing silence
\* of the original duration
C29_Witness ==
    /\ pc = "Done"
    /\ EmptyTranscription
    /\ Probed
    /\ Len(concat) = 1 /\ TrailingSilence(concat) = original
    /\ snapshots.translated = Written(<<>>)


(***************************************************************************)
(* extract_audio called on its own, as the tests call it: a few calls in a *)
(* row on one work directory, which may hold wavs of earlier runs.         *)
(***************************************************************************)
MaxExtractCalls == 3

\* the work directories a first call may find
WorkDirs ==
    {wavs \in [Stems -> {NoWav} \cup {WavOf(v, st) : v \in Videos, st \in {"partial", "complete"}}] :
        \A name \in Stems : wavs[name] # NoWav => Stem(wavs[name].of) = name}

InitExtract ==
    /\ pc = "Extract"
    /\ sub = "-"
    /\ idx = 0
    /\ segments = <<>>
    /\ clips = <<>>
    /\ diarization = <<>>
    /\ snapshots = [transcribed |-> NoFileYet, translated |-> NoFileYet]
    /\ silence = <<>>
    /\ concat = <<>>
    /\ mixed = FALSE
    /\ output = [dir |-> FALSE, video |-> "absent", srt |-> NoFileYet]
    /\ exitStatus = Running
    /\ config = [generate_subtitles |-> FALSE]
    /\ original \in Originals
    /\ started = <<>>
    /\ errors = {}
    /\ synth = <<>>
    /\ adjust = NoCall
    /\ engines = NoEngines
    /\ \E wavs \in WorkDirs : extract = [NoExtract EXCEPT !.wavs = wavs, !.before = wavs]

\* extract_audio(video, work_dir) returns
ExtractCall ==
    /\ pc = "Extract"
    /\ extract.calls < MaxExtractCalls
    /\ \E video \in Videos : extract' = ExtractReturns(extract, video)
    /\ UNCHANGED <<pc, sub, idx, segments, clips, diarization, snapshots, silence, concat,
                   mixed, output, exitStatus, config, original, started, errors, synth,
                   adjust, engines>>

\* extract_audio(video, work_dir) raises RuntimeError
ExtractCallRaise ==
    /\ pc = "Extract"
    /\ extract.calls < MaxExtractCalls
    /\ \E video \in Videos : extract' \in ExtractRaises(extract, video)
    /\ UNCHANGED <<pc, sub, idx, segments, clips, diarization, snapshots, silence, concat,
                   mixed, output, exitStatus, config, original, started, errors, synth,
                   adjust, engines>>

NextExtract == ExtractCall \/ ExtractCallRaise

SpecExtract == InitExtract /\ [][NextExtract]_vars

\* C30: a call of extract_audio runs the extraction engine at most once, and what it
\* returns is work_dir/<video stem>.wav; when that wav was in the work directory
\* before the call, the engine is not run, the path of the wav is returned and the
\* work directory is as it was; a call repeated after one that returned runs no
\* engine, returns the same path and changes no file
C30_ExtractOnce ==
    /\ [](extract.calls > 0 =>
            LET name == Stem(extract.video) IN
            /\ extract.runs <= 1
            /\ extract.returned # Raised =>
                  extract.returned =
                      [kind |-> "path", dir |-> "work", name |-> name, suffix |-> "wav"]
            /\ extract.before[name].state # "absent" =>
                  /\ extract.runs = 0
                  /\ extract.returned.kind = "path"
                  /\ extract.wavs = extract.before)
    /\ [][(/\ extract.returned.kind = "path"
            /\ extract'.calls = extract.calls + 1
            /\ extract'.video = extract.video)
              => /\ extract'.runs = 0
                 /\ extract'.returned = extract.returned
                 /\ extract'.wavs = extract.wavs]_vars

\* C30 witness: the second of two calls on the same video found the wav that the
\* first had extracted, and returned it without running the engine
C30_Witness ==
    /\ extract.calls = 2
    /\ extract.runs = 0
    /\ extract.returned = WavPath(extract.video)
    /\ extract.wavs[Stem(extract.video)] = WavOf(extract.video, "complete")
    /\ extract.before = extract.wavs

====
